---- MODULE Spec2Model ----
(***************************************************************************)
(* Model of the model-loading orchestration of KoboldAI:                   *)
(*   modeling/inference_models/generic_hf_torch.py                         *)
(*       GenericHFTorchInferenceModel._load                                *)
(*   modeling/inference_models/hf_mtj.py                                   *)
(*       HFMTJInferenceModel.setup_mtj, _load and the engine callbacks     *)
(* Spec is the loading of a model by either loader class; SpecSettings,    *)
(* SpecWarper and SpecStopping are the callbacks of the sharded engine,    *)
(* SpecSoft is get_soft_tokens.                                            *)
(* _load is a straight-line procedure; pc is its position, one action per  *)
(* block of the source.  Results of calls into collaborators (download     *)
(* cache, tokenizer, checkpoint contents, Lua script) are inputs of the    *)
(* action that makes the call.                                             *)
(***************************************************************************)
EXTENDS Integers, Sequences, FiniteSets, TLC

VARIABLES
    pc,            \* position inside _load
    reloaded,      \* _load has been run before on this disk and these globals
    save_model,    \* argument of _load
    model_type,    \* utils.koboldai_vars.model_type
    lazy_load,     \* utils.koboldai_vars.lazy_load
    hascuda,       \* utils.koboldai_vars.hascuda
    breakmodel,    \* utils.koboldai_vars.breakmodel
    nobreakmodel,  \* utils.koboldai_vars.nobreakmodel
    usegpu,        \* utils.koboldai_vars.usegpu
    disk_blocks,   \* breakmodel.disk_blocks
    disk,          \* the folders of the legacy and the namespaced layout
    disk0,         \* the folders as they were before the first load
    relocations,   \* shutil.move calls of the legacy relocation that moved data
    log,           \* events of the current load, in order
    model_local,   \* the local name `model` of _load ("unbound" until assigned)
    fp32_model,    \* utils.koboldai_vars.fp32_model
    rebuild_tensor,\* torch._utils._rebuild_tensor: "old", the operation of
                   \* torch itself; "new", the hook of the current load;
                   \* "stale", a hook an earlier load left installed
    old_rebuild_tensor, \* the local old_rebuild_tensor of _load
    tensors,       \* (dtype, ndim) of the tensors rebuilt while constructing
    num_shards,    \* utils.num_shards: 0 stands for None
    weight_map,    \* shard files of the index manifest still in the cache
    pending,       \* shard files the copy loop has not handled yet
    wi,            \* position of the loop over possible_weight_name
    localFiles,    \* files placed in the local model path by this load
    cachePresent,  \* the "cache/" directory exists
    resaved,       \* model.save_pretrained wrote a 16-bit copy
    badwordsids,   \* utils.koboldai_vars.badwordsids
    newlinemode,   \* utils.koboldai_vars.newlinemode
    vocab,         \* tokenizer.get_vocab() as read by the derivation
    device,        \* where the final placement pass put the model
    mtj_model,     \* utils.koboldai_vars.model of the TPU loader
    custmodpth_ok, \* custmodpth is set and names a folder
    callbacks,     \* the five callbacks are installed in tpu_mtj_backend
    sampler_order, \* utils.koboldai_vars.sampler_order
    settings_ret,  \* what mtj_settings_callback returned
    wpc,           \* position inside mtj_warper_callback
    scores,        \* argument of mtj_warper_callback, a batch of score rows
    lua_logits,    \* lua_koboldbridge.logits, the table shared with the script
    warper_ret,    \* outcome of mtj_warper_callback
    gen_phase,     \* the engine is inside a generation call or idle
    generated_tkns,\* utils.koboldai_vars.generated_tkns
    genamt,        \* utils.koboldai_vars.genamt
    abort,         \* utils.koboldai_vars.abort
    generating,    \* lua_koboldbridge.generating
    regeneration_required, \* lua_koboldbridge.regeneration_required
    dynamicscan,   \* utils.koboldai_vars.dynamicscan
    numseqs,       \* utils.koboldai_vars.numseqs, the rows of `generated`
    lua_generated, \* lua_koboldbridge.generated: last position written per row
    past,          \* the module global `past` of hf_mtj.py
    stop_calls,    \* calls of mtj_stopping_callback in this generation
    stop_ret,      \* outcome of the last mtj_stopping_callback
    params,        \* tpu_mtj_backend.params: "seq" and "cores_per_replica"
    sp,            \* utils.koboldai_vars.sp, the soft-prompt embedding
    sp_length,     \* utils.koboldai_vars.sp_length
    soft_ret       \* outcome of the last get_soft_tokens

vars == <<pc, reloaded, save_model, model_type, lazy_load, hascuda, breakmodel,
          nobreakmodel, usegpu, disk_blocks, disk, disk0, relocations, log,
          model_local, fp32_model, rebuild_tensor, old_rebuild_tensor, tensors, num_shards,
          weight_map, pending, wi, localFiles, cachePresent, resaved,
          badwordsids, newlinemode, vocab, device, mtj_model, custmodpth_ok,
          callbacks, sampler_order, settings_ret, wpc, scores, lua_logits,
          warper_ret, gen_phase, generated_tkns, genamt, abort, generating,
          regeneration_required, dynamicscan, numseqs, lua_generated, past,
          stop_calls, stop_ret, params, sp, sp_length, soft_ret>>

settingsVars == <<sampler_order, settings_ret>>

warperVars == <<wpc, scores, lua_logits, warper_ret>>

stoppingVars == <<gen_phase, generated_tkns, genamt, abort, generating,
                  regeneration_required, dynamicscan, numseqs, lua_generated,
                  past, stop_calls, stop_ret>>

softVars == <<params, sp, sp_length, soft_ret>>

hookVars == <<settingsVars, warperVars, stoppingVars, softVars>>

mtjVars == <<mtj_model, custmodpth_ok, callbacks>>

\* what the loaders read and write
loaderVars == <<pc, reloaded, save_model, model_type, lazy_load, hascuda,
                breakmodel, nobreakmodel, usegpu, disk_blocks, disk, disk0,
                relocations, log, model_local, fp32_model, rebuild_tensor,
                old_rebuild_tensor, tensors, num_shards, weight_map, pending, wi, localFiles,
                cachePresent, resaved, badwordsids, newlinemode, vocab, device,
                mtjVars>>

\* what the torch loader neither reads nor writes besides its flags
torchOnlyVars == <<reloaded, save_model, lazy_load, hascuda, breakmodel,
                   nobreakmodel, usegpu, disk_blocks, disk, disk0, relocations,
                   model_local, fp32_model, rebuild_tensor, old_rebuild_tensor, tensors, num_shards,
                   weight_map, pending, wi, localFiles, cachePresent, resaved,
                   device>>

flagVars == <<save_model, model_type, hascuda, breakmodel, nobreakmodel,
              usegpu, disk_blocks, newlinemode, disk0, mtjVars, hookVars>>

(***************************************************************************)
(* Bounds                                                                  *)
(***************************************************************************)
MaxDiskBlocks == 1
MaxShards == 2
MaxVocab == 3

(***************************************************************************)
(* Strings the code inspects character by character are sequences of       *)
(* one-character strings.                                                  *)
(***************************************************************************)
TokPad == <<"<", "p", "a", "d", ">">>
TokHello == <<"h", "e", "l", "l", "o">>
TokEos == <<"<", "/", "s", ">">>
TokBracket == <<"[", "x", "]">>

\* the entries a tokenizer's vocabulary can hold, in the order items() yields
\* them; the id of an entry is its position counted from 0
TokenOrder == <<TokPad, TokHello, TokEos, TokBracket>>

TokenId(k) == (CHOOSE i \in DOMAIN TokenOrder : TokenOrder[i] = k) - 1

TokenPool == { TokenOrder[i] : i \in DOMAIN TokenOrder }

\* the vocabularies a tokenizer can have: at most MaxVocab entries of the pool
Vocabs == { S \in SUBSET TokenPool : Cardinality(S) <= MaxVocab }

ModelTypes == {"gpt2", "opt"}

NewlineModes == {"n", "s"}

WEIGHTS_NAME == "pytorch_model.bin"
SAFE_WEIGHTS_NAME == "model.safetensors"
CONFIG_NAME == "config.json"
WEIGHTS_INDEX_NAME == "pytorch_model.bin.index.json"

\* names of the shard files an index manifest can list
ShardFile == <<"a.bin", "b.bin", "c.bin", "d.bin">>

\* (dtype, number of dimensions) of a tensor handed to _rebuild_tensor
TensorKinds == { <<"float16", 2>>, <<"float32", 1>>, <<"float32", 2>> }

\* the checkpoints offered for download, each the set of tensor kinds in it:
\* a 16-bit one with 32-bit vectors and one with 32-bit matrices
Checkpoints ==
    { {<<"float16", 2>>, <<"float32", 1>>}, {<<"float16", 2>>, <<"float32", 2>>} }

DirKinds == {"T", "L", "D"}

(***************************************************************************)
(* Legacy-layout relocation, generic_hf_torch.py:35-41                     *)
(***************************************************************************)
\* HFInferenceModel.get_local_model_path: the legacy path is the bare model
\* name, the current one is models/<name>; None unless it is a directory
\* or ignore_existance is set.
LocalModelPath(d, legacy, ignore_existance) ==
    IF legacy
    THEN IF d.legacy \in DirKinds \/ ignore_existance THEN "legacy" ELSE "None"
    ELSE IF d.target \in DirKinds \/ ignore_existance THEN "target" ELSE "None"

\* shutil.move(legacy, target) copying the folder and leaving the source
ShutilMoveCopies(d) ==
    IF d.target \in DirKinds
    THEN IF d.nested # "absent"
         THEN [ok |-> FALSE, disk |-> d]
         ELSE [ok |-> TRUE, disk |-> [d EXCEPT !.nested = d.legacy]]
    ELSE [ok |-> TRUE, disk |-> [d EXCEPT !.target = d.legacy]]

\* shutil.move(legacy, target): into an existing directory the source is
\* moved as target/<basename>, and the call raises when that name is taken;
\* otherwise the folder is renamed to the target.
ShutilMove(d) ==
    IF d.target \in DirKinds
    THEN IF d.nested # "absent"
         THEN [ok |-> FALSE, disk |-> d]
         ELSE [ok |-> TRUE,
               disk |-> [legacy |-> "absent", target |-> d.target, nested |-> d.legacy]]
    ELSE [ok |-> TRUE,
          disk |-> [legacy |-> "absent", target |-> d.legacy, nested |-> "absent"]]

LegacyRelocate ==
    /\ pc = "start"
    /\ IF LocalModelPath(disk, TRUE, FALSE) # "None"
       THEN LET r == ShutilMove(disk) IN
            /\ disk' = r.disk
            /\ relocations' = IF r.ok THEN relocations + 1 ELSE relocations
            /\ pc' = IF r.ok THEN "gpt2" ELSE "error"
            /\ log' = Append(log, IF r.ok THEN "relocate" ELSE "relocate_failed")
       ELSE /\ pc' = "gpt2"
            /\ UNCHANGED <<disk, relocations, log>>
    /\ UNCHANGED <<reloaded, flagVars, lazy_load, model_local, fp32_model,
                   rebuild_tensor, old_rebuild_tensor, tensors, num_shards, weight_map, pending, wi,
                   localFiles, cachePresent, resaved, badwordsids, vocab, device>>

(***************************************************************************)
(* GPT-2 adjustment and early placement plan, generic_hf_torch.py:49-65    *)
(***************************************************************************)
Gpt2Adjust ==
    /\ pc = "gpt2"
    /\ lazy_load' = IF model_type = "gpt2" THEN FALSE ELSE lazy_load
    /\ pc' = "early_plan"
    /\ UNCHANGED <<reloaded, flagVars, disk, relocations, log, model_local,
                   fp32_model, rebuild_tensor, old_rebuild_tensor, tensors, num_shards, weight_map,
                   pending, wi, localFiles, cachePresent, resaved, badwordsids,
                   vocab, device>>

EarlyPlanGuard ==
    lazy_load /\ hascuda /\ breakmodel /\ ~nobreakmodel

EarlyDeviceConfig ==
    /\ pc = "early_plan"
    /\ log' = IF EarlyPlanGuard THEN Append(log, "plan") ELSE log
    /\ pc' = "meta"
    /\ UNCHANGED <<reloaded, flagVars, lazy_load, disk, relocations, model_local,
                   fp32_model, rebuild_tensor, old_rebuild_tensor, tensors, num_shards, weight_map,
                   pending, wi, localFiles, cachePresent, resaved, badwordsids,
                   vocab, device>>

\* metadata-only pass inside the lazy loader, generic_hf_torch.py:67-78
MetaModelPass ==
    /\ pc = "meta"
    /\ log' = IF lazy_load THEN Append(log, "lazy_meta") ELSE log
    /\ pc' = "open"
    /\ UNCHANGED <<reloaded, flagVars, lazy_load, disk, relocations, model_local,
                   fp32_model, rebuild_tensor, old_rebuild_tensor, tensors, num_shards, weight_map,
                   pending, wi, localFiles, cachePresent, resaved, badwordsids,
                   vocab, device>>

(***************************************************************************)
(* Model and tokenizer construction, generic_hf_torch.py:80-121            *)
(***************************************************************************)
EnterLoadContext ==
    /\ pc = "open"
    /\ log' = IF lazy_load THEN Append(log, "lazy_enter") ELSE log
    /\ pc' = IF LocalModelPath(disk, FALSE, FALSE) # "None"
             THEN "construct_local" ELSE "install_hook"
    /\ UNCHANGED <<reloaded, flagVars, lazy_load, disk, relocations, model_local,
                   fp32_model, rebuild_tensor, old_rebuild_tensor, tensors, num_shards, weight_map,
                   pending, wi, localFiles, cachePresent, resaved, badwordsids,
                   vocab, device>>

\* lines 99-118: torch._utils._rebuild_tensor = new_rebuild_tensor
InstallRebuildHook ==
    /\ pc = "install_hook"
    /\ old_rebuild_tensor' = rebuild_tensor
    /\ rebuild_tensor' = "new"
    /\ pc' = "construct_remote"
    /\ UNCHANGED <<reloaded, flagVars, lazy_load, disk, relocations, log,
                   model_local, fp32_model, tensors, num_shards, weight_map,
                   pending, wi, localFiles, cachePresent, resaved, badwordsids,
                   vocab, device>>

\* new_rebuild_tensor, lines 102-116: the flag after one tensor was rebuilt
new_rebuild_tensor(flag, t) ==
    IF t[1] = "float32" /\ t[2] >= 2 THEN TRUE ELSE flag

\* the flag after every tensor of the checkpoint went through the hook
Fp32After(flag, ckpt) ==
    IF \E t \in ckpt : new_rebuild_tensor(flag, t) THEN TRUE ELSE flag

\* lines 92-95: the model is stored locally.  A hook an earlier load left
\* installed sees the tensors of this checkpoint too.
ConstructLocal ==
    /\ pc = "construct_local"
    /\ \E ok \in BOOLEAN, ckpt \in Checkpoints :
          /\ fp32_model' = IF rebuild_tensor = "stale"
                           THEN Fp32After(fp32_model, ckpt) ELSE fp32_model
          /\ pc' = IF ok THEN "badwords" ELSE "error"
          /\ log' = Append(log, IF ok THEN "construct" ELSE "construct_failed")
    /\ UNCHANGED <<reloaded, flagVars, lazy_load, disk, relocations, model_local,
                   rebuild_tensor, old_rebuild_tensor, tensors, num_shards,
                   weight_map, pending, wi, localFiles, cachePresent, resaved,
                   badwordsids, vocab, device>>

\* lines 119-120: download and construct; the checkpoint's tensors pass
\* through the installed hook, the patched from_pretrained records the
\* shard count and the index manifest.
ConstructRemote ==
    /\ pc = "construct_remote"
    /\ \E ckpt \in Checkpoints, ns \in 0..MaxShards, ok \in BOOLEAN :
          /\ tensors' = ckpt
          /\ fp32_model' = IF rebuild_tensor = "new"
                           THEN Fp32After(fp32_model, ckpt) ELSE fp32_model
          /\ num_shards' = ns
          /\ weight_map' = { ShardFile[i] : i \in 1..ns }
          /\ cachePresent' = TRUE
          /\ pc' = IF ok THEN "restore_hook" ELSE "error"
          /\ log' = Append(log, IF ok THEN "construct" ELSE "construct_failed")
    /\ UNCHANGED <<reloaded, flagVars, lazy_load, disk, relocations, model_local,
                   rebuild_tensor, old_rebuild_tensor, pending, wi, localFiles, resaved,
                   badwordsids, vocab, device>>

\* line 121: torch._utils._rebuild_tensor = old_rebuild_tensor
RestoreRebuildHook ==
    /\ pc = "restore_hook"
    /\ rebuild_tensor' = old_rebuild_tensor
    /\ pc' = IF save_model THEN "save_tokenizer" ELSE "badwords"
    /\ UNCHANGED <<reloaded, flagVars, lazy_load, disk, relocations, log,
                   old_rebuild_tensor,
                   model_local, fp32_model, tensors, num_shards, weight_map,
                   pending, wi, localFiles, cachePresent, resaved, badwordsids,
                   vocab, device>>

(***************************************************************************)
(* Saving the downloaded checkpoint, generic_hf_torch.py:123-225           *)
(***************************************************************************)
\* lines 124-126: tokenizer.save_pretrained creates the local model path
SaveTokenizer ==
    /\ pc = "save_tokenizer"
    /\ disk' = [disk EXCEPT !.target = "D"]
    /\ localFiles' = localFiles \cup {"tokenizer"}
    /\ pc' = "resave"
    /\ UNCHANGED <<reloaded, flagVars, lazy_load, relocations, log, model_local,
                   fp32_model, rebuild_tensor, old_rebuild_tensor, tensors, num_shards, weight_map,
                   pending, wi, cachePresent, resaved, badwordsids, vocab,
                   device>>

\* line 128
ResaveGuard == fp32_model /\ disk_blocks = 0

\* lines 128-136: `model = model.half()` reads the local name `model`, which
\* no statement of _load has bound (self.model is another name): the read
\* raises UnboundLocalError.
ResaveHalf ==
    /\ pc = "resave"
    /\ IF ResaveGuard
       THEN IF model_local = "unbound"
            THEN /\ pc' = "error"
                 /\ log' = Append(log, "resave_unbound")
                 /\ UNCHANGED <<model_local, resaved, localFiles>>
            ELSE /\ model_local' = "half"
                 /\ resaved' = TRUE
                 /\ localFiles' = localFiles \cup {"resaved_fp16"}
                 /\ log' = Append(log, "save_pretrained")
                 /\ pc' = "rmcache"
       ELSE /\ pc' = "copy_config"
            /\ UNCHANGED <<model_local, resaved, localFiles, log>>
    /\ UNCHANGED <<reloaded, flagVars, lazy_load, disk, relocations, fp32_model,
                   rebuild_tensor, old_rebuild_tensor, tensors, num_shards, weight_map, pending, wi,
                   cachePresent, badwordsids, vocab, device>>

\* lines 145-161: move config.json out of the download cache
CopyConfig ==
    /\ pc = "copy_config"
    /\ \E ok \in BOOLEAN :
          IF ok
          THEN /\ localFiles' = localFiles \cup {CONFIG_NAME}
               /\ pc' = IF num_shards = 0 THEN "copy_weights" ELSE "read_index"
               /\ wi' = 1
          ELSE /\ pc' = "error"
               /\ UNCHANGED <<localFiles, wi>>
    /\ UNCHANGED <<reloaded, flagVars, lazy_load, disk, relocations, log,
                   model_local, fp32_model, rebuild_tensor, old_rebuild_tensor, tensors, num_shards,
                   weight_map, pending, cachePresent, resaved, badwordsids,
                   vocab, device>>

\* line 165-168
PossibleWeightNames == <<WEIGHTS_NAME, SAFE_WEIGHTS_NAME>>

\* lines 169-190, one pass of the loop: the move of possible_weight_name
\* succeeded (ok) or raised; the handler re-raises for model.safetensors.
CopyWeightStep(name, ok, files, i) ==
    IF ok
    THEN [files |-> files \cup {name}, raised |-> FALSE, next |-> i + 1]
    ELSE [files |-> files, raised |-> name = SAFE_WEIGHTS_NAME, next |-> i + 1]

\* lines 163-190
CopyWeight ==
    /\ pc = "copy_weights"
    /\ wi <= Len(PossibleWeightNames)
    /\ \E ok \in BOOLEAN :
          LET r == CopyWeightStep(PossibleWeightNames[wi], ok, localFiles, wi) IN
          /\ localFiles' = r.files
          /\ wi' = r.next
          /\ pc' = IF r.raised THEN "error"
                   ELSE IF r.next > Len(PossibleWeightNames) THEN "rmcache"
                   ELSE "copy_weights"
          /\ log' = Append(log, IF ok THEN "got_weight" ELSE "missed_weight")
    /\ UNCHANGED <<reloaded, flagVars, lazy_load, disk, relocations, model_local,
                   fp32_model, rebuild_tensor, old_rebuild_tensor, tensors, num_shards, weight_map,
                   pending, cachePresent, resaved, badwordsids, vocab, device>>

\* one listed shard, with a failed move skipped instead of raised
ShardStepSkips(f, ok, files) ==
    [files |-> IF ok THEN files \cup {f} ELSE files, raised |-> FALSE]

\* lines 207-224, one pass of the loop over the listed shard files
ShardStep(f, ok, files) ==
    [files |-> IF ok THEN files \cup {f} ELSE files, raised |-> ~ok]

\* lines 194-196: read the index manifest, collect the distinct shard names
ReadIndex ==
    /\ pc = "read_index"
    /\ \E ok \in BOOLEAN :
          /\ pc' = IF ok THEN "move_index" ELSE "error"
          /\ pending' = IF ok THEN weight_map ELSE pending
          /\ log' = Append(log, IF ok THEN "read_index" ELSE "index_failed")
    /\ UNCHANGED <<reloaded, flagVars, lazy_load, disk, relocations, model_local,
                   fp32_model, rebuild_tensor, old_rebuild_tensor, tensors, num_shards, weight_map,
                   wi, localFiles, cachePresent, resaved, badwordsids, vocab,
                   device>>

\* lines 197-204: move the index manifest into the local model path
MoveIndex ==
    /\ pc = "move_index"
    /\ localFiles' = localFiles \cup {WEIGHTS_INDEX_NAME}
    /\ pc' = "move_shards"
    /\ UNCHANGED <<reloaded, flagVars, lazy_load, disk, relocations, log,
                   model_local, fp32_model, rebuild_tensor, old_rebuild_tensor, tensors, num_shards,
                   weight_map, pending, wi, cachePresent, resaved, badwordsids,
                   vocab, device>>

\* lines 205-224: the loop over the set of shard names, in any order
MoveShard ==
    /\ pc = "move_shards"
    /\ IF pending = {}
       THEN /\ pc' = "rmcache"
            /\ UNCHANGED <<pending, localFiles, weight_map, log>>
       ELSE \E f \in pending, ok \in BOOLEAN :
               LET r == ShardStep(f, ok, localFiles) IN
               /\ localFiles' = r.files
               /\ pending' = pending \ {f}
               /\ weight_map' = weight_map
               /\ pc' = IF r.raised THEN "error" ELSE "move_shards"
               /\ log' = Append(log, IF ok THEN "got_shard" ELSE "missed_shard")
    /\ UNCHANGED <<reloaded, flagVars, lazy_load, disk, relocations, model_local,
                   fp32_model, rebuild_tensor, old_rebuild_tensor, tensors, num_shards, wi,
                   cachePresent, resaved, badwordsids, vocab, device>>

\* line 225: shutil.rmtree("cache/")
RemoveCache ==
    /\ pc = "rmcache"
    /\ cachePresent' = FALSE
    /\ log' = Append(log, "rmtree")
    /\ pc' = "badwords"
    /\ UNCHANGED <<reloaded, flagVars, lazy_load, disk, relocations, model_local,
                   fp32_model, rebuild_tensor, old_rebuild_tensor, tensors, num_shards, weight_map,
                   pending, wi, localFiles, resaved, badwordsids, vocab, device>>

(***************************************************************************)
(* Bad-words derivation, generic_hf_torch.py:227-236, hf_mtj.py:199-209    *)
(***************************************************************************)
\* any(c in str(k) for c in "<>[]")
HasSpecialChar(k) == \E i \in DOMAIN k : k[i] \in {"<", ">", "[", "]"}

\* the second filter with the end-of-sequence entry left out when the
\* newline mode is not "s"
KeepEntryUnlessS(k, mode) == mode = "s" \/ k # TokEos

\* utils.koboldai_vars.newlinemode != "s" or str(k) != "</s>"
KeepEntry(k, mode) == mode # "s" \/ k # TokEos

\* model types with built-in handling, lines 229 / 202
ExcludedTypes == {"gpt2", "gpt_neo", "gptj"}

\* the list comprehension: one singleton group per kept entry, in the
\* order of get_vocab().items()
BadWordsFrom(v, mode) ==
    LET kept == SelectSeq(TokenOrder,
                          LAMBDA k : k \in v /\ HasSpecialChar(k) /\ KeepEntry(k, mode))
    IN  [i \in 1..Len(kept) |-> <<TokenId(kept[i])>>]

\* lines 227-230 / 200-203: the list is still the default object and the
\* model type has no built-in handling
BadWordsGuard(bw, mtype) ==
    bw.source = "default" /\ mtype \notin ExcludedTypes

\* the assignment of lines 227-236 / 200-209
DerivedBadWords(bw, mtype, v, mode) ==
    IF BadWordsGuard(bw, mtype)
    THEN [source |-> "vocab", groups |-> BadWordsFrom(v, mode)]
    ELSE bw

DeriveBadWords ==
    /\ pc = "badwords"
    /\ \E v \in Vocabs :
          /\ vocab' = v
          /\ badwordsids' = DerivedBadWords(badwordsids, model_type, v, newlinemode)
    /\ log' = Append(log, IF BadWordsGuard(badwordsids, model_type)
                          THEN "badwords_derived" ELSE "badwords_kept")
    /\ pc' = "place"
    /\ UNCHANGED <<reloaded, flagVars, lazy_load, disk, relocations, model_local,
                   fp32_model, rebuild_tensor, old_rebuild_tensor, tensors, num_shards, weight_map,
                   pending, wi, localFiles, cachePresent, resaved, device>>

(***************************************************************************)
(* Final device placement pass, generic_hf_torch.py:240-260                *)
(***************************************************************************)
\* the pass with the split branch tested before the accelerator-only one
PlacementSplitFirst(hc, ug, bm, ll, db, ml) ==
    IF hc /\ bm
    THEN IF ~ll /\ ml = "unbound"
         THEN [device |-> "none", events |-> <<"plan_unbound">>, raised |-> TRUE]
         ELSE [device |-> "split",
               events |-> IF ll THEN <<"move_split">> ELSE <<"plan", "move_split">>,
               raised |-> FALSE]
    ELSE IF hc /\ ug
    THEN [device |-> "gpu_half", events |-> <<"to_gpu_half">>, raised |-> FALSE]
    ELSE IF db > 0
    THEN [device |-> "disk", events |-> <<"move_disk">>, raised |-> FALSE]
    ELSE [device |-> "cpu_float", events |-> <<"to_cpu_float">>, raised |-> FALSE]

\* hc, ug, bm, ll: hascuda, usegpu, breakmodel, lazy_load; db: disk_blocks;
\* ml: the local name `model`, read by breakmodel_device_config(model.config)
Placement(hc, ug, bm, ll, db, ml) ==
    IF hc
    THEN IF ug
         THEN [device |-> "gpu_half", events |-> <<"to_gpu_half">>, raised |-> FALSE]
         ELSE IF bm
         THEN IF ~ll /\ ml = "unbound"
              THEN [device |-> "none", events |-> <<"plan_unbound">>, raised |-> TRUE]
              ELSE [device |-> "split",
                    events |-> IF ll THEN <<"move_split">> ELSE <<"plan", "move_split">>,
                    raised |-> FALSE]
         ELSE IF db > 0
         THEN [device |-> "disk", events |-> <<"move_disk">>, raised |-> FALSE]
         ELSE IF db > 0
         THEN [device |-> "disk", events |-> <<"move_disk">>, raised |-> FALSE]
         ELSE [device |-> "cpu_float", events |-> <<"to_cpu_float">>, raised |-> FALSE]
    ELSE IF db > 0
    THEN [device |-> "disk", events |-> <<"move_disk">>, raised |-> FALSE]
    ELSE [device |-> "cpu_float", events |-> <<"to_cpu_float">>, raised |-> FALSE]

PlaceModel ==
    /\ pc = "place"
    /\ LET r == Placement(hascuda, usegpu, breakmodel, lazy_load, disk_blocks, model_local) IN
       /\ device' = r.device
       /\ log' = log \o r.events
       /\ pc' = IF r.raised THEN "error" ELSE "done"
    /\ UNCHANGED <<reloaded, flagVars, lazy_load, disk, relocations, model_local,
                   fp32_model, rebuild_tensor, old_rebuild_tensor, tensors, num_shards, weight_map,
                   pending, wi, localFiles, cachePresent, resaved, badwordsids,
                   vocab>>

(***************************************************************************)
(* The caller runs _load again (a reload, or a retry after an error): the  *)
(* locals of the call start afresh, the globals and the disk persist.  A  *)
(* hook the previous call left in torch._utils is from now on the hook of  *)
(* an earlier load.                                                        *)
(***************************************************************************)
Reload ==
    /\ pc \in {"done", "error"}
    /\ reloaded' = TRUE
    /\ pc' = "start"
    /\ log' = <<>>
    /\ model_local' = "unbound"
    /\ tensors' = {}
    /\ pending' = {}
    /\ wi' = 1
    /\ vocab' = {}
    /\ device' = "none"
    /\ old_rebuild_tensor' = "unbound"
    /\ rebuild_tensor' = IF rebuild_tensor = "new" THEN "stale" ELSE rebuild_tensor
    /\ UNCHANGED <<flagVars, lazy_load, disk, relocations, fp32_model,
                   num_shards, weight_map, localFiles, cachePresent, resaved,
                   badwordsids>>

\* the folders before the first load: a legacy folder (content L) or none,
\* and at the namespaced path nothing or a folder (content T) with or
\* without an entry X of the model's own name
Disks ==
    { d \in [legacy : {"absent", "L"}, target : {"absent", "T"},
             nested : {"absent", "X"}] :
        d.nested = "X" => d.target = "T" }

DefaultBadWords == [source |-> "default", groups |-> <<>>]

(***************************************************************************)
(* HFMTJInferenceModel.setup_mtj and _load, hf_mtj.py:43-209               *)
(***************************************************************************)
MTJModels == {"TPUMeshTransformerGPTJ", "TPUMeshTransformerGPTNeoX", "hf"}

MTJModelTypes == {"gptj", "gpt_neox", "opt"}

\* utils.koboldai_vars.badwordsids_neox, line 152
NeoxBadWords == [source |-> "neox", groups |-> <<>>]

\* lines 149-177 (the callbacks themselves are defined at lines 44-147)
SetupMTJ ==
    /\ pc = "mtj_setup"
    /\ badwordsids' = IF mtj_model = "TPUMeshTransformerGPTNeoX"
                      THEN NeoxBadWords ELSE badwordsids
    /\ IF /\ mtj_model \in {"TPUMeshTransformerGPTJ", "TPUMeshTransformerGPTNeoX"}
          /\ ~custmodpth_ok
       THEN /\ pc' = "error_mtj"
            /\ log' = Append(log, "FileNotFoundError")
            /\ callbacks' = callbacks
       ELSE /\ pc' = "mtj_load"
            /\ log' = log
            /\ callbacks' = TRUE
    /\ UNCHANGED <<torchOnlyVars, model_type, newlinemode, vocab, mtj_model,
                   custmodpth_ok, hookVars>>

\* lines 179-209: _load after setup_mtj; load_model succeeds or raises
LoadMTJ ==
    /\ pc = "mtj_load"
    /\ \E ok \in BOOLEAN :
          IF ok
          THEN \E v \in Vocabs :
                  /\ vocab' = v
                  /\ badwordsids' = DerivedBadWords(badwordsids, model_type, v, newlinemode)
                  /\ log' = Append(log, IF BadWordsGuard(badwordsids, model_type)
                                        THEN "badwords_derived" ELSE "badwords_kept")
                  /\ pc' = "done_mtj"
          ELSE /\ pc' = "error_mtj"
               /\ log' = Append(log, "load_model_failed")
               /\ UNCHANGED <<vocab, badwordsids>>
    /\ UNCHANGED <<torchOnlyVars, model_type, newlinemode, mtjVars, hookVars>>

\* mtj_stopping_callback has returned nothing (yet, or because it raised)
NoStopResult ==
    [state |-> "none", excluded_world_info |-> <<>>,
     regeneration_required |-> FALSE, halt |-> FALSE, found |-> FALSE]

\* no callback has been called yet: the state of the callbacks' variables
SettingsIdle ==
    /\ sampler_order = <<>>
    /\ settings_ret = [state |-> "none", sampler_order |-> <<>>, local_order |-> <<>>]

WarperIdle ==
    /\ wpc = "idle"
    /\ scores = <<>>
    /\ lua_logits = <<>>
    /\ warper_ret = [state |-> "none", scores |-> <<>>]

StoppingIdle ==
    /\ gen_phase = "idle"
    /\ generated_tkns = 0
    /\ genamt = 1
    /\ abort = FALSE
    /\ generating = FALSE
    /\ regeneration_required = FALSE
    /\ dynamicscan = FALSE
    /\ numseqs = 1
    /\ lua_generated = <<>>
    /\ past = "undefined"
    /\ stop_calls = 0
    /\ stop_ret = NoStopResult

\* no soft prompt is configured and get_soft_tokens has not been called
SoftIdle ==
    /\ params = [seq |-> 1, cores_per_replica |-> 1]
    /\ sp = [source |-> "None", rows |-> 0, shards |-> 0]
    /\ sp_length = 0
    /\ soft_ret = [state |-> "none", soft_tokens |-> <<>>, rows |-> 0]

HooksIdle == SettingsIdle /\ WarperIdle /\ StoppingIdle /\ SoftIdle

\* the torch loader's own variables before its first run
TorchFresh ==
    /\ reloaded = FALSE
    /\ relocations = 0
    /\ model_local = "unbound"
    /\ fp32_model = FALSE
    /\ rebuild_tensor = "old"
    /\ old_rebuild_tensor = "unbound"
    /\ tensors = {}
    /\ num_shards = 0
    /\ weight_map = {}
    /\ pending = {}
    /\ wi = 1
    /\ localFiles = {}
    /\ cachePresent = FALSE
    /\ resaved = FALSE
    /\ device = "none"

\* GenericHFTorchInferenceModel._load is about to run for the first time
InitTorch ==
    /\ pc = "start"
    /\ save_model \in BOOLEAN
    /\ model_type \in ModelTypes
    /\ lazy_load \in BOOLEAN
    /\ hascuda \in BOOLEAN
    /\ breakmodel \in BOOLEAN
    /\ nobreakmodel \in BOOLEAN
    /\ usegpu \in BOOLEAN
    /\ disk_blocks \in 0..MaxDiskBlocks
    /\ disk \in Disks
    /\ disk0 = disk
    /\ TorchFresh
    /\ log = <<>>
    /\ badwordsids = DefaultBadWords
    /\ newlinemode \in NewlineModes
    /\ vocab = {}
    /\ mtj_model = "none"
    /\ custmodpth_ok = FALSE
    /\ callbacks = FALSE
    /\ HooksIdle

\* the flags and folders the TPU loader does not look at
TorchUnused ==
    /\ save_model = FALSE
    /\ lazy_load = FALSE
    /\ hascuda = FALSE
    /\ breakmodel = FALSE
    /\ nobreakmodel = FALSE
    /\ usegpu = FALSE
    /\ disk_blocks = 0
    /\ disk = [legacy |-> "absent", target |-> "absent", nested |-> "absent"]
    /\ disk0 = disk
    /\ TorchFresh

\* HFMTJInferenceModel._load is about to run
InitMTJ ==
    /\ pc = "mtj_setup"
    /\ mtj_model \in MTJModels
    /\ custmodpth_ok \in BOOLEAN
    /\ callbacks = FALSE
    /\ model_type \in MTJModelTypes
    /\ newlinemode \in NewlineModes
    /\ badwordsids = DefaultBadWords
    /\ vocab = {}
    /\ log = <<>>
    /\ TorchUnused
    /\ HooksIdle

Init == InitTorch \/ InitMTJ

Next ==
    \/ LegacyRelocate
    \/ Gpt2Adjust
    \/ EarlyDeviceConfig
    \/ MetaModelPass
    \/ EnterLoadContext
    \/ ConstructLocal
    \/ InstallRebuildHook
    \/ ConstructRemote
    \/ RestoreRebuildHook
    \/ SaveTokenizer
    \/ ResaveHalf
    \/ CopyConfig
    \/ CopyWeight
    \/ ReadIndex
    \/ MoveIndex
    \/ MoveShard
    \/ RemoveCache
    \/ DeriveBadWords
    \/ PlaceModel
    \/ Reload
    \/ SetupMTJ
    \/ LoadMTJ

\* loading a model with either loader class
Spec == Init /\ [][Next]_vars

(***************************************************************************)
(* Properties of GenericHFTorchInferenceModel._load                        *)
(***************************************************************************)
HasEvent(e) == \E i \in DOMAIN log : log[i] = e

LastEvent == IF log = <<>> THEN "none" ELSE log[Len(log)]

\* the final placement pass has run in the current load
PlacementRan == pc = "done" \/ HasEvent("plan_unbound")

\* C1: once the final placement pass has run, for every combination of the
\* flags: with an accelerator present and accelerator-only use requested the
\* model is on the accelerator at 16-bit precision and no _move_to_devices
\* was performed, also when split placement is requested as well; the split
\* branch is entered only when accelerator-only does not apply, the
\* disk-offload move only when neither of these applies, and full-precision
\* CPU placement only when none of the three applies.
C1_PlacementPriority ==
    PlacementRan =>
        /\ (hascuda /\ usegpu) =>
               /\ device = "gpu_half"
               /\ ~HasEvent("move_split")
               /\ ~HasEvent("move_disk")
        /\ (device = "split" \/ HasEvent("plan_unbound")) =>
               /\ ~(hascuda /\ usegpu)
               /\ hascuda /\ breakmodel
        /\ device = "split" <=> HasEvent("move_split")
        /\ device = "disk" =>
               /\ ~(hascuda /\ usegpu)
               /\ ~(hascuda /\ breakmodel)
               /\ disk_blocks > 0
               /\ HasEvent("move_disk")
        /\ device = "cpu_float" =>
               /\ ~(hascuda /\ usegpu)
               /\ ~(hascuda /\ breakmodel)
               /\ disk_blocks = 0
               /\ ~HasEvent("move_disk")

\* C1 witness: accelerator-only and split placement both requested, and the
\* model went to the accelerator
C1_Witness ==
    /\ pc = "done"
    /\ hascuda /\ usegpu /\ breakmodel
    /\ device = "gpu_half"

\* C4 (as claimed): copying the weight files of an unsharded checkpoint
\* aborts the load only when neither the canonical file nor
\* model.safetensors was obtained.
C4_FailsOnlyWhenNeither ==
    (pc = "error" /\ LastEvent = "missed_weight") =>
        /\ WEIGHTS_NAME \notin localFiles
        /\ SAFE_WEIGHTS_NAME \notin localFiles

\* the sharded copy path is being, or has been, taken in the current load
ShardedCopy == HasEvent("read_index")

\* C5: for a sharded checkpoint the index manifest is read before any shard
\* is obtained; the download cache is removed and the load goes on only
\* once the manifest and every shard of its weight map are in the local
\* model path; and a shard that cannot be obtained aborts the load.
C5_AllShardsBeforeReady ==
    /\ \A i \in DOMAIN log :
          log[i] \in {"got_shard", "missed_shard"} =>
              \E j \in 1..(i - 1) : log[j] = "read_index"
    /\ (ShardedCopy /\ (HasEvent("rmtree") \/ pc \in {"badwords", "place", "done"})) =>
          /\ WEIGHTS_INDEX_NAME \in localFiles
          /\ weight_map \subseteq localFiles
          /\ ~HasEvent("missed_shard")
    /\ HasEvent("missed_shard") =>
          /\ pc = "error"
          /\ cachePresent
          /\ ~HasEvent("rmtree")

\* C5 witness: a manifest listing two shards, both placed, the load complete
C5_Witness ==
    /\ pc = "done"
    /\ ShardedCopy
    /\ Cardinality(weight_map) >= 2
    /\ weight_map \subseteq localFiles
    /\ ~cachePresent

\* C6 (as claimed): with save_model set, a detected 32-bit tensor of 2 or
\* more dimensions and no disk blocks lead to a 16-bit re-serialization,
\* otherwise the checkpoint files are moved verbatim, and in both cases the
\* save step completes without error.
C6_SaveStepCompletes ==
    /\ ~HasEvent("resave_unbound")
    /\ (HasEvent("rmtree") /\ fp32_model /\ disk_blocks = 0) => resaved
    /\ (HasEvent("rmtree") /\ ~(fp32_model /\ disk_blocks = 0)) =>
          (~HasEvent("save_pretrained") /\ CONFIG_NAME \in localFiles)

\* C7 (as claimed): when lazy loading and split placement are both in force
\* with an accelerator present, the placement planner has run before the
\* lazy-loading context is entered and before the weights are constructed,
\* so a plan of this load exists when _move_to_devices runs.
C7_PlanBeforeLazyLoad ==
    (lazy_load /\ breakmodel /\ hascuda) =>
        \A i \in DOMAIN log :
            log[i] \in {"lazy_meta", "lazy_enter", "construct", "move_split"} =>
                \E j \in 1..(i - 1) : log[j] = "plan"

SuppressedIds ==
    { badwordsids.groups[i][1] : i \in DOMAIN badwordsids.groups }

\* the list was derived from the vocabulary in the current load
DerivedNow == HasEvent("badwords_derived")

\* C2 (as amended): when the list is derived (default list, model type not
\* gpt2, gpt_neo or gptj) it holds exactly one singleton group per
\* vocabulary entry whose string contains '<', '>', '[' or ']'; the entry
\* '</s>' is among them whenever newlinemode is not "s" and is left out only
\* when newlinemode is "s".  For {"<pad>":0, "hello":1, "</s>":2} and
\* newlinemode "n" the list holds the ids 0 and 2 and not 1.
C2_BadWordsDerivation ==
    DerivedNow =>
        /\ badwordsids.source = "vocab"
        /\ model_type \notin {"gpt2", "gpt_neo", "gptj"}
        /\ \A i \in DOMAIN badwordsids.groups : Len(badwordsids.groups[i]) = 1
        /\ \A i, j \in DOMAIN badwordsids.groups :
              badwordsids.groups[i] = badwordsids.groups[j] => i = j
        /\ \A k \in TokenPool :
              TokenId(k) \in SuppressedIds <=>
                  /\ k \in vocab
                  /\ \E n \in DOMAIN k : k[n] = "<" \/ k[n] = ">" \/ k[n] = "[" \/ k[n] = "]"
                  /\ (k = TokEos => newlinemode # "s")
        /\ (vocab = {TokPad, TokHello, TokEos} /\ newlinemode = "n") =>
              SuppressedIds = {0, 2}

\* C2 witness: the vocabulary of the example, newline mode "n", list derived
C2_Witness ==
    /\ DerivedNow
    /\ vocab = {TokPad, TokHello, TokEos}
    /\ newlinemode = "n"
    /\ 0 \in SuppressedIds /\ 2 \in SuppressedIds

\* C2 (as claimed): with the newline mode "s" off, the derived list never
\* holds the id of '</s>'
C2_EosNeverSuppressed ==
    (DerivedNow /\ newlinemode # "s") => TokenId(TokEos) \notin SuppressedIds

\* _load is not running: it returned or an error left it
LoadExited == pc \in {"done", "error"}

\* C13 (as claimed): the dtype-observing hook is the tensor-rebuild
\* operation only while the model and the tokenizer are being constructed,
\* and whenever _load has exited, by returning or by an error, the
\* operation is the one that was installed before _load began (the one the
\* load saved in old_rebuild_tensor, if it installed its hook at all).
C13_HookRestoredOnExit ==
    /\ rebuild_tensor = "new" => pc \in {"construct_remote", "restore_hook"}
    /\ LoadExited =>
          /\ rebuild_tensor # "new"
          /\ old_rebuild_tensor # "unbound" => rebuild_tensor = old_rebuild_tensor

(***************************************************************************)
(* The callbacks handed to the sharded engine, hf_mtj.py:44-147.  Each has *)
(* a specification of its own: they share no variable.                     *)
(***************************************************************************)
\* the TPU loader has run: the state in which the engine calls the hooks
MTJLoaded ==
    /\ pc = "done_mtj"
    /\ mtj_model = "hf"
    /\ custmodpth_ok = FALSE
    /\ callbacks = TRUE
    /\ model_type = "opt"
    /\ newlinemode = "n"
    /\ badwordsids = DefaultBadWords
    /\ vocab = {}
    /\ log = <<>>
    /\ TorchUnused

(***************************************************************************)
(* mtj_settings_callback, hf_mtj.py:130-147                                *)
(***************************************************************************)
\* identifier of the repetition-penalty stage, line 135
RepPenStage == 6

\* number of stages of a complete sampler order, line 133
FullOrderLength == 7

\* the sampler stages 0..6
Stages == 0..RepPenStage

\* sampler orders: every stage at most once
SamplerOrders ==
    { o \in UNION { [1..n -> Stages] : n \in 0..FullOrderLength } :
        \A i, j \in DOMAIN o : o[i] = o[j] => i = j }

\* lines 131-135: the local copy, with the repetition penalty put in front
LocalSamplerOrder(order) ==
    IF Len(order) < FullOrderLength THEN <<RepPenStage>> \o order ELSE order

\* lines 136-147: the entry "sampler_order" of the returned dict is
\* utils.koboldai_vars.sampler_order, not the local copy
SettingsCallback ==
    /\ callbacks
    /\ settings_ret' = [state |-> "returned",
                        sampler_order |-> sampler_order,
                        local_order |-> LocalSamplerOrder(sampler_order)]
    /\ UNCHANGED <<loaderVars, softVars, sampler_order, warperVars, stoppingVars>>

InitSettings ==
    /\ MTJLoaded
    /\ sampler_order \in SamplerOrders
    /\ settings_ret = [state |-> "none", sampler_order |-> <<>>, local_order |-> <<>>]
    /\ WarperIdle
    /\ StoppingIdle
    /\ SoftIdle

NextSettings == SettingsCallback

SpecSettings == InitSettings /\ [][NextSettings]_vars

\* C3 (as claimed): the sampler order returned by the settings callback is
\* the configured order with stage 6 prepended when the configured order
\* has fewer than 7 stages, and the configured order itself otherwise.
C3_RepPenPrepended ==
    settings_ret.state = "returned" =>
        settings_ret.sampler_order =
            IF Len(sampler_order) < 7 THEN <<6>> \o sampler_order ELSE sampler_order

(***************************************************************************)
(* mtj_warper_callback, hf_mtj.py:44-67                                    *)
(***************************************************************************)
MaxRows == 1
MaxCols == 1

\* the values a score takes in the model
ScoreValues == {0, 1}

\* rows of at most n scores
RowsUpTo(n) == UNION { [1..c -> ScoreValues] : c \in 0..n }

\* the score batches the engine passes: r rows of c scores each
ScoreBatches ==
    UNION { [1..r -> [1..c -> ScoreValues]] : r \in 1..MaxRows, c \in 1..MaxCols }

\* what execute_genmod can leave in the logits table: any number of rows
\* up to one more than the batch had, each of any length up to one more
ScriptTables ==
    UNION { [1..r -> RowsUpTo(MaxCols + 1)] : r \in 0..(MaxRows + 1) }

\* scores.shape of a batch
ShapeOf(batch) == <<Len(batch), Len(batch[1])>>

\* np.array(tuple(tuple(row.values()) ...), dtype=...) raises ValueError
\* when the rows differ in length
Ragged(t) == \E i, j \in DOMAIN t : Len(t[i]) # Len(t[j])

\* the shape of the array built from a table that is not ragged; an empty
\* table gives the one-dimensional shape (0,)
NpArrayShape(t) ==
    IF t = <<>> THEN <<0>> ELSE <<Len(t), Len(t[1])>>

\* lines 58-67 without the assert
CollectScoresUnchecked(t, shape) ==
    IF Ragged(t)
    THEN [state |-> "raised", scores |-> <<>>]
    ELSE [state |-> "returned", scores |-> t]

\* lines 58-67: rebuild the array from the table, assert its shape, return
CollectScores(t, shape) ==
    IF Ragged(t)
    THEN [state |-> "raised", scores |-> <<>>]
    ELSE IF NpArrayShape(t) # shape
    THEN [state |-> "raised", scores |-> <<>>]
    ELSE [state |-> "returned", scores |-> t]

\* lines 45-54: every row of the batch goes into the logits table
WarperHandOver ==
    /\ callbacks
    /\ wpc = "idle"
    /\ \E batch \in ScoreBatches :
          /\ scores' = batch
          /\ lua_logits' = [r \in 1..Len(batch) |-> batch[r]]
    /\ warper_ret' = [state |-> "none", scores |-> <<>>]
    /\ wpc' = "genmod"
    /\ UNCHANGED <<loaderVars, softVars, settingsVars, stoppingVars>>

\* line 56: lua_koboldbridge.execute_genmod(), the script rewrites the table
ExecuteGenmod ==
    /\ wpc = "genmod"
    /\ lua_logits' \in ScriptTables
    /\ wpc' = "collect"
    /\ UNCHANGED <<loaderVars, softVars, settingsVars, stoppingVars, scores, warper_ret>>

\* lines 58-67
WarperCollect ==
    /\ wpc = "collect"
    /\ warper_ret' = CollectScores(lua_logits, ShapeOf(scores))
    /\ wpc' = "idle"
    /\ UNCHANGED <<loaderVars, softVars, settingsVars, stoppingVars, scores, lua_logits>>

InitWarper ==
    /\ MTJLoaded
    /\ SettingsIdle
    /\ WarperIdle
    /\ StoppingIdle
    /\ SoftIdle

NextWarper ==
    \/ WarperHandOver
    \/ ExecuteGenmod
    \/ WarperCollect

SpecWarper == InitWarper /\ [][NextWarper]_vars

\* the hook has finished a call
WarperDone == wpc = "idle" /\ warper_ret.state # "none"

\* C10: every row of the input batch is handed to the script; the hook
\* returns the script's table only when it has as many rows as the input
\* and every row has the input's row length; a table with another number
\* of rows or with a row of another length makes the call fail.
C10_ShapeChecked ==
    /\ wpc = "genmod" =>
          /\ Len(lua_logits) = Len(scores)
          /\ \A r \in DOMAIN scores : lua_logits[r] = scores[r]
    /\ WarperDone =>
          /\ warper_ret.state \in {"returned", "raised"}
          /\ warper_ret.state = "returned" <=>
                /\ Len(lua_logits) = Len(scores)
                /\ \A r \in DOMAIN lua_logits : Len(lua_logits[r]) = Len(scores[1])
          /\ warper_ret.state = "returned" => warper_ret.scores = lua_logits

\* C10 witness: the script returned a table with a row too many and the
\* call failed
C10_Witness ==
    /\ WarperDone
    /\ Len(lua_logits) = Len(scores) + 1
    /\ \A r \in DOMAIN lua_logits : Len(lua_logits[r]) = Len(scores[1])
    /\ warper_ret.state = "raised"

(***************************************************************************)
(* mtj_stopping_callback, hf_mtj.py:69-120, and the generation call that   *)
(* drives it                                                               *)
(***************************************************************************)
MaxGenamt == 3
MaxSeqs == 2
MaxWorldInfo == 1

\* identifiers of the world-info entries
WorldInfo == 1..MaxWorldInfo

\* one set of world-info entries per generated sequence: the argument
\* excluded_world_info (line 74), and what calc_ai_text finds per sequence
WorldInfoSets(n) == [1..n -> SUBSET WorldInfo]

\* lines 99-119: some sequence's text holds an entry that is not excluded
FoundNew(found, excluded) ==
    \E i \in DOMAIN found : found[i] \ excluded[i] # {}

\* lines 78-82 with `>` in place of `>=`
StoppingHaltStrict(ab, gen, tkns, amt) ==
    ab \/ ~gen \/ tkns > amt

\* lines 78-82: halt
StoppingHalt(ab, gen, tkns, amt) ==
    ab \/ ~gen \/ tkns >= amt

\* A generation call begins (_raw_generate hands the call to the engine):
\* the token counter is at 0, nothing is aborted, the script is generating.
StartGeneration ==
    /\ callbacks
    /\ gen_phase = "idle"
    /\ gen_phase' = "running"
    /\ generated_tkns' = 0
    /\ stop_calls' = 0
    /\ genamt' \in 1..MaxGenamt
    /\ numseqs' \in 1..MaxSeqs
    /\ dynamicscan' \in BOOLEAN
    /\ abort' = FALSE
    /\ generating' = TRUE
    /\ regeneration_required' = FALSE
    /\ lua_generated' = [i \in 1..numseqs' |-> 0]
    /\ stop_ret' = NoStopResult
    /\ UNCHANGED <<loaderVars, softVars, settingsVars, warperVars, past>>

\* the user aborts: utils.koboldai_vars.abort is set from outside
SetAbort ==
    /\ gen_phase = "running"
    /\ ~abort
    /\ abort' = TRUE
    /\ UNCHANGED <<loaderVars, softVars, settingsVars, warperVars, gen_phase,
                   generated_tkns, genamt, generating, regeneration_required,
                   dynamicscan, numseqs, lua_generated, past, stop_calls,
                   stop_ret>>

\* the script ends generation or asks for a regeneration between two tokens
ScriptSignals ==
    /\ gen_phase = "running"
    /\ \E g \in BOOLEAN, r \in BOOLEAN :
          /\ generating' = g
          /\ regeneration_required' = r
          /\ <<g, r>> # <<generating, regeneration_required>>
    /\ UNCHANGED <<loaderVars, softVars, settingsVars, warperVars, gen_phase,
                   generated_tkns, genamt, abort, dynamicscan, numseqs,
                   lua_generated, past, stop_calls, stop_ret>>

\* lines 69-120, one call per generated token.  `generated` has numseqs
\* rows and excluded_world_info one set per row (the assert of line 74).
\* With dynamicscan on and no halt the loop of line 99 reads past[i] first;
\* `past` is a module global no statement defines, so the read raises
\* NameError before the text is decoded or scanned.
StoppingCallback ==
    /\ gen_phase = "running"
    /\ generated_tkns <= MaxGenamt
    /\ \E excluded \in WorldInfoSets(numseqs) :
         LET tkns == generated_tkns + 1
             halt == StoppingHalt(abort, generating, tkns, genamt)
             regen == regeneration_required
         IN  /\ generated_tkns' = tkns
             /\ regeneration_required' = FALSE
             /\ lua_generated' = [i \in 1..numseqs |-> tkns]
             /\ stop_calls' = stop_calls + 1
             /\ IF ~dynamicscan \/ halt
                THEN /\ stop_ret' = [state |-> "returned",
                                     excluded_world_info |-> excluded,
                                     regeneration_required |-> regen,
                                     halt |-> halt,
                                     found |-> FALSE]
                     /\ gen_phase' = IF halt THEN "idle" ELSE "running"
                ELSE IF past = "undefined"
                THEN /\ stop_ret' = [NoStopResult EXCEPT !.state = "raised"]
                     /\ gen_phase' = "idle"
                ELSE /\ \E found \in WorldInfoSets(numseqs) :
                            stop_ret' = [state |-> "returned",
                                         excluded_world_info |-> excluded,
                                         regeneration_required |->
                                             regen \/ FoundNew(found, excluded),
                                         halt |-> halt,
                                         found |-> FoundNew(found, excluded)]
                     /\ gen_phase' = "running"
    /\ UNCHANGED <<loaderVars, softVars, settingsVars, warperVars, genamt, abort,
                   generating, dynamicscan, numseqs, past>>

InitStopping ==
    /\ MTJLoaded
    /\ SettingsIdle
    /\ WarperIdle
    /\ StoppingIdle
    /\ SoftIdle

NextStopping ==
    \/ StartGeneration
    \/ SetAbort
    \/ ScriptSignals
    \/ StoppingCallback

SpecStopping == InitStopping /\ [][NextStopping]_vars

\* a step that is a call of the stopping hook
IsStoppingCall == stop_calls' = stop_calls + 1

\* C9: every call of the stopping hook raises the generated-token counter
\* by exactly one; the halt value a call returns is true exactly when the
\* abort flag is set, or the script bridge is not generating, or the
\* counter has reached genamt; and counted from 0 the hook has never been
\* called more than genamt times, the genamt-th call returning halt.
C9_HaltDecision ==
    /\ [][IsStoppingCall =>
             /\ generated_tkns' = generated_tkns + 1
             /\ stop_ret'.state = "returned" =>
                   (stop_ret'.halt <=>
                        (abort \/ ~generating \/ generated_tkns' >= genamt))]_vars
    /\ [](/\ stop_calls = generated_tkns
          /\ stop_calls <= genamt
          /\ (stop_calls = genamt /\ genamt >= 1) =>
                 (stop_ret.state = "returned" /\ stop_ret.halt /\ gen_phase = "idle"))

\* C9 witness: nothing aborted, the script still generating, and the hook
\* halted at its genamt-th call
C9_Witness ==
    /\ genamt = MaxGenamt
    /\ stop_calls = genamt
    /\ ~abort /\ generating /\ ~dynamicscan
    /\ stop_ret.state = "returned"
    /\ stop_ret.halt

\* C12 (as claimed): every call of the stopping hook completes and returns
\* its three results, also with dynamic world-info scanning on and no halt
\* due; in that case the returned regeneration flag is true exactly when
\* the script had asked for a regeneration or some sequence's text holds a
\* world-info entry outside that sequence's exclusion set.
C12_HookCompletes ==
    [][IsStoppingCall =>
          /\ stop_ret'.state = "returned"
          /\ Len(stop_ret'.excluded_world_info) = numseqs
          /\ (dynamicscan /\ ~stop_ret'.halt) =>
                (stop_ret'.regeneration_required <=>
                     (regeneration_required \/ stop_ret'.found))]_vars

(***************************************************************************)
(* HFMTJInferenceModel.get_soft_tokens, hf_mtj.py:211-251                  *)
(***************************************************************************)
MaxSeqLength == 20
MaxCores == 8
MaxSpLength == 2

\* Python's a % b: the result has the sign of the divisor b
PyMod(a, b) == IF b > 0 THEN a % b ELSE -((-a) % (-b))

\* lines 225-232 with the remainder taken by the positive core count
PaddingAmountFloor(seq, cores, rows) ==
    seq - PyMod(seq, cores) - rows

\* lines 225-232: padding_amount
PaddingAmount(seq, cores, rows) ==
    seq - PyMod(seq, -cores) - rows

\* line 233, np.pad(tensor, ((0, amount), (0, 0))): the rows of the result,
\* -1 when np.pad raises ValueError on a negative amount
NpPad(rows, amount) == IF amount < 0 THEN -1 ELSE rows + amount

\* lines 234-240, tensor.reshape(cores, -1, d): the reshape raises
\* ValueError unless the rows split evenly and not emptily over the cores
Reshapes(rows, cores) == rows > 0 /\ rows % cores = 0

\* lines 243-250: np.arange over sp_length ids following the padded
\* vocabulary, written as offsets from n_vocab + n_vocab_padding
SoftTokenIds(n) == [i \in 1..n |-> i - 1]

\* lines 211-251, called by _raw_generate (line 261) before every generation
GetSoftTokens ==
    /\ callbacks
    /\ IF sp.source = "None"
       THEN LET rows == 1
                padded == NpPad(rows, PaddingAmount(params.seq,
                                       params.cores_per_replica, rows))
            IN  IF padded >= 0 /\ Reshapes(padded, params.cores_per_replica)
                THEN /\ sp' = [source |-> "zero", rows |-> padded,
                               shards |-> params.cores_per_replica]
                     /\ soft_ret' = [state |-> "returned",
                                     soft_tokens |-> SoftTokenIds(sp_length),
                                     rows |-> padded]
                ELSE /\ sp' = sp
                     /\ soft_ret' = [state |-> "raised", soft_tokens |-> <<>>,
                                     rows |-> padded]
       ELSE /\ sp' = sp
            /\ soft_ret' = [state |-> "returned",
                            soft_tokens |-> SoftTokenIds(sp_length),
                            rows |-> 0]
    /\ UNCHANGED <<loaderVars, settingsVars, warperVars, stoppingVars, params,
                   sp_length>>

\* the engine's geometry, and either no soft prompt or a configured one of
\* one row per core
InitSoft ==
    /\ MTJLoaded
    /\ SettingsIdle
    /\ WarperIdle
    /\ StoppingIdle
    /\ params \in [seq : 1..MaxSeqLength, cores_per_replica : 1..MaxCores]
    /\ \/ /\ sp = [source |-> "None", rows |-> 0, shards |-> 0]
          /\ sp_length = 0
       \/ /\ sp = [source |-> "configured",
                   rows |-> params.cores_per_replica,
                   shards |-> params.cores_per_replica]
          /\ sp_length \in 1..MaxSpLength
    /\ soft_ret = [state |-> "none", soft_tokens |-> <<>>, rows |-> 0]

NextSoft == GetSoftTokens

SpecSoft == InitSoft /\ [][NextSoft]_vars

\* C11: get_soft_tokens never raises; with no soft prompt configured a call
\* leaves a zero placeholder whose row count before the reshape is the
\* smallest multiple of the core count that is at least the sequence
\* length, split over that many shards; a soft prompt that is configured
\* is left as it is by every call.
C11_PaddingToCoreMultiple ==
    /\ [](/\ soft_ret.state # "raised"
          /\ sp.source = "zero" =>
                /\ sp.shards = params.cores_per_replica
                /\ sp.rows % params.cores_per_replica = 0
                /\ sp.rows >= params.seq
                /\ sp.rows - params.cores_per_replica < params.seq)
    /\ [][/\ (sp.source = "None" /\ soft_ret'.state # "none")
                => sp'.source = "zero"
          /\ sp.source # "None" => sp' = sp]_vars

\* C11 witness: 8 cores and sequence length 20 gave a placeholder of 24 rows
C11_Witness ==
    /\ params.cores_per_replica = 8
    /\ params.seq = 20
    /\ soft_ret.state = "returned"
    /\ sp.source = "zero"
    /\ sp.rows = 24

====
